---- MODULE Spec2Model ----
(***************************************************************************)
(* A model of the label model of metal (metal/label_model/label_model.py)  *)
(* and of the configuration merge it uses (metal/utils.py).                *)
(*                                                                         *)
(* Numbers.  Probabilities are held as integers in percent (mu, clip),     *)
(* the class balance p as integer weights over their sum, the overlaps     *)
(* matrix O as the integer matrix n*O over the denominator n.  A tensor    *)
(* that holds NaN/inf entries is the record [nan |-> TRUE, ...].           *)
(* Python objects with identity (the config dicts) live in `heap`.         *)
(***************************************************************************)
EXTENDS Integers, Sequences, FiniteSets, TLC

\* ------------------------------------------------------------------ bounds
MaxM == 3            \* the largest number of sources m
MaxEpochs == 2       \* the largest n_epochs a caller passes
MaxTrainCalls == 1   \* the number of train calls made on the instance
MaxK == 3            \* the largest number of classes k
MaxN == 3            \* the largest number of items handed to error_buckets

\* ------------------------------------------------------------ small helpers
Min(S) == CHOOSE x \in S : \A y \in S : x <= y
Max(S) == CHOOSE x \in S : \A y \in S : x >= y

RECURSIVE Pow(_, _)
Pow(b, e) == IF e = 0 THEN 1 ELSE b * Pow(b, e - 1)

RECURSIVE SumOver(_, _)
\* sum of f[x] over the finite set S
SumOver(f, S) ==
  IF S = {} THEN 0
  ELSE LET x == CHOOSE y \in S : TRUE IN f[x] + SumOver(f, S \ {x})

RECURSIVE ProdOver(_, _)
\* product of f[x] over the finite set S
ProdOver(f, S) ==
  IF S = {} THEN 1
  ELSE LET x == CHOOSE y \in S : TRUE IN f[x] * ProdOver(f, S \ {x})

RECURSIVE SortedSeq(_)
\* list(S) for a set S of small ints: ascending order
SortedSeq(S) ==
  IF S = {} THEN <<>>
  ELSE LET x == Min(S) IN <<x>> \o SortedSeq(S \ {x})

\* evaluate v once and hand its value to F
Bind(v, F(_)) == CHOOSE out \in {F(x) : x \in {v}} : TRUE

\* Python's x[key] = v on a dict held as a function: insert or overwrite
SetItem(f, key, v) == (key :> v) @@ f

\* --------------------------------------------------- get_clique_tree (graph_utils)
\* all unordered pairs of the sources 0..m-1, as <<i, j>> with i < j
Pairs(m) == {e \in (0 .. m - 1) \X (0 .. m - 1) : e[1] < e[2]}

Adjacent(E, i, j) == <<i, j>> \in E \/ <<j, i>> \in E

RECURSIVE IsForest(_, _)
\* no cycle: every non-empty edge set has a vertex on exactly one of its edges
IsForest(m, E) ==
  \/ E = {}
  \/ \E e \in E : \E v \in {e[1], e[2]} :
       /\ \A f \in E \ {e} : v \notin {f[1], f[2]}
       /\ IsForest(m, E \ {e})

\* the dependency edge sets a caller may declare over m sources: acyclic, every
\* source depending on at most one source of lower index
DepSets(m) ==
  {E \in SUBSET Pairs(m) :
     /\ IsForest(m, E)
     /\ \A e \in E : \A f \in E : e[2] = f[2] => e = f}

IsClique(E, S) == \A i \in S : \A j \in S : i # j => Adjacent(E, i, j)

\* maximal cliques of the dependency graph; an isolated source is a clique
MaxCliques(m, E) ==
  {S \in SUBSET (0 .. m - 1) :
     /\ S # {}
     /\ IsClique(E, S)
     /\ \A T \in SUBSET (0 .. m - 1) : (S \subseteq T /\ IsClique(E, T)) => T = S}

CliqueKey(S) == SumOver([i \in S |-> Pow(2, i)], S)

RECURSIVE CliqueSeq(_)
\* the maximal cliques in a fixed order; node id = position - 1
CliqueSeq(Cs) ==
  IF Cs = {} THEN <<>>
  ELSE LET c == CHOOSE x \in Cs : \A y \in Cs : CliqueKey(x) <= CliqueKey(y)
       IN <<c>> \o CliqueSeq(Cs \ {c})

\* node ids i < j whose cliques intersect
CliqueGraphEdges(cs) ==
  {e \in (0 .. Len(cs) - 1) \X (0 .. Len(cs) - 1) :
     e[1] < e[2] /\ cs[e[1] + 1] \cap cs[e[2] + 1] # {}}

\* a spanning forest of the clique graph
SpanningForest(cs) ==
  LET G == CliqueGraphEdges(cs)
      F == {T \in SUBSET G : IsForest(Len(cs), T)}
  IN CHOOSE T \in F : \A U \in F : Cardinality(U) <= Cardinality(T)

\* the clique tree: nodes[i] and edges[<<i, j>>] are attribute dicts that hold
\* 'members' only; start_index / end_index are added by the augmentation
get_clique_tree(m, E) ==
  LET cs == CliqueSeq(MaxCliques(m, E))
      T  == SpanningForest(cs)
  IN [nodes |-> [i \in 0 .. Len(cs) - 1 |-> [members |-> cs[i + 1]]],
      edges |-> [e \in T |-> [members |-> cs[e[1] + 1] \cap cs[e[2] + 1]]]]

TreeNodes(t) == DOMAIN t.nodes
TreeEdges(t) == DOMAIN t.edges

RECURSIVE EdgeSeq(_)
EdgeSeq(Es) ==
  IF Es = {} THEN <<>>
  ELSE LET e == CHOOSE x \in Es : \A y \in Es :
                  x[1] < y[1] \/ (x[1] = y[1] /\ x[2] <= y[2])
       IN <<e>> \o EdgeSeq(Es \ {e})

\* chain(c_tree.nodes(), c_tree.edges()): ints, then tuples
TreeItems(t) ==
  [i \in 1 .. Cardinality(TreeNodes(t)) |-> <<"node", i - 1>>]
    \o [i \in 1 .. Cardinality(TreeEdges(t)) |-> <<"edge", EdgeSeq(TreeEdges(t))[i]>>]

\* ------------------------------------------ LabelModel._get_augmented_label_matrix
\* a label matrix is a sequence of rows; a row maps source 0..m-1 to its label
NumRows(L) == Len(L)
NumCols(L) == Cardinality(DOMAIN L[1])
Width(A) == Cardinality(DOMAIN A[1])

\* c_data keys: the int i of lines 88-89 and the tuple(members) of line 153
IntKey(i) == <<"int", <<i>>>>
TupleKey(members) == <<"tuple", members>>

\* lines 87-94: one entry per source, with the nodes of c_tree that hold it
UnaryCData(L, k, offset, t) ==
  LET km == k + 1 - offset
  IN [key \in {IntKey(i) : i \in 0 .. NumCols(L) - 1} |->
        LET i == key[2][1]
        IN [start_index |-> i * km,
            end_index   |-> (i + 1) * km,
            max_cliques |-> {j \in TreeNodes(t) : i \in t.nodes[j].members}]]

\* indicators that forget the offset: column i*km + y is that of L[:, i] == y
UnaryAug_alt(L, k, offset) ==
  LET km == k + 1 - offset
  IN [r \in 1 .. NumRows(L) |->
        [c \in 0 .. NumCols(L) * km - 1 |->
           IF L[r][c \div km] = c % km THEN 1 ELSE 0]]

\* lines 115-117: column i*km + (y - offset) is the indicator of L[:, i] == y
UnaryAug(L, k, offset) ==
  LET km == k + 1 - offset
  IN [r \in 1 .. NumRows(L) |->
        [c \in 0 .. NumCols(L) * km - 1 |->
           IF L[r][c \div km] = (c % km) + offset THEN 1 ELSE 0]]

\* itertools.product(range(km), repeat=nc): the j-th value of the i-th tuple
ProductVal(i, j, km, nc) == (i \div Pow(km, nc - j)) % km

\* columns that look at the first member only
CliqueCols_alt(A, members, km) ==
  [r \in 1 .. Len(A) |->
     [i \in 0 .. Pow(km, Len(members)) - 1 |->
        A[r][members[1] * km + ProductVal(i, 1, km, Len(members))]]]

\* lines 142-145: the joint indicator columns of a clique with members `members`
CliqueCols(A, members, km) ==
  LET nc == Len(members)
  IN [r \in 1 .. Len(A) |->
        [i \in 0 .. Pow(km, nc) - 1 |->
           ProdOver([j \in 1 .. nc |-> A[r][members[j] * km + ProductVal(i, j, km, nc)]],
                    1 .. nc)]]

\* np.hstack([A, B])
HStack(A, B) ==
  [r \in 1 .. Len(A) |->
     [c \in 0 .. Width(A) + Width(B) - 1 |->
        IF c < Width(A) THEN A[r][c] ELSE B[r][c - Width(A)]]]

\* an iteration that treats a group of one member like any other
AugmentItem_alt(acc, item, km) ==
  LET C       == IF item[1] = "node" THEN acc.c_tree.nodes[item[2]]
                 ELSE acc.c_tree.edges[item[2]]
      members == SortedSeq(C.members)
      si      == Width(acc.L_aug)
      ei      == Width(acc.L_aug) + Pow(km, Len(members))
      C2      == [members |-> C.members, start_index |-> si, end_index |-> ei]
  IN [L_aug  |-> HStack(acc.L_aug, CliqueCols(acc.L_aug, members, km)),
      c_tree |-> IF item[1] = "node"
                 THEN [acc.c_tree EXCEPT !.nodes[item[2]] = C2]
                 ELSE [acc.c_tree EXCEPT !.edges[item[2]] = C2],
      c_data |-> SetItem(acc.c_data, TupleKey(members),
                         [start_index |-> si, end_index |-> ei,
                          max_cliques |-> IF item[1] = "node" THEN {item[2]}
                                          ELSE {item[2][1], item[2][2]}])]

\* lines 123-157, one iteration: annotate the node / edge C and extend L_aug
AugmentItem(acc, item, km) ==
  LET C       == IF item[1] = "node" THEN acc.c_tree.nodes[item[2]]
                 ELSE acc.c_tree.edges[item[2]]
      members == SortedSeq(C.members)
      nc      == Len(members)
      si      == IF nc = 1 THEN members[1] * km ELSE Width(acc.L_aug)
      ei      == IF nc = 1 THEN (members[1] + 1) * km
                 ELSE Width(acc.L_aug) + Pow(km, nc)
      C2      == [members |-> C.members, start_index |-> si, end_index |-> ei]
      tree2   == IF item[1] = "node"
                 THEN [acc.c_tree EXCEPT !.nodes[item[2]] = C2]
                 ELSE [acc.c_tree EXCEPT !.edges[item[2]] = C2]
      entry   == [start_index |-> si, end_index |-> ei,
                  max_cliques |-> IF item[1] = "node" THEN {item[2]}
                                  ELSE {item[2][1], item[2][2]}]
  IN [L_aug  |-> IF nc = 1 THEN acc.L_aug
                 ELSE HStack(acc.L_aug, CliqueCols(acc.L_aug, members, km)),
      c_tree |-> tree2,
      c_data |-> SetItem(acc.c_data, TupleKey(members), entry)]

RECURSIVE AugmentItems(_, _, _)
AugmentItems(acc, items, km) ==
  IF items = <<>> THEN acc
  ELSE Bind(AugmentItem(acc, Head(items), km),
            LAMBDA next : AugmentItems(next, Tail(items), km))

\* a method that never adds a higher-order column
get_augmented_label_matrix_alt(L, k, t, offset, higher_order) ==
  [L_aug  |-> UnaryAug(L, k, offset),
   c_tree |-> t,
   c_data |-> UnaryCData(L, k, offset, t)]

\* the whole method (single-task): the value returned as L_aug, and the two
\* objects it writes, self.c_data (rebuilt) and self.c_tree (annotated in place)
get_augmented_label_matrix(L, k, t, offset, higher_order) ==
  LET acc0 == [L_aug  |-> UnaryAug(L, k, offset),
               c_tree |-> t,
               c_data |-> UnaryCData(L, k, offset, t)]
  IN IF higher_order
     THEN Bind(acc0, LAMBDA acc : AugmentItems(acc, TreeItems(t), k + 1 - offset))
     ELSE acc0

\* the multi-task case: L is the list of the t matrices L[s], one per subtask,
\* and fs is list(task_graph.feasible_set()), a sequence of label vectors

\* indicators without the factor of lines 111-112
MultiTaskAug_alt(L, fs, km) ==
  [r \in 1 .. NumRows(L[1]) |->
     [c \in 0 .. NumCols(L[1]) * km - 1 |->
        IF (c % km) + 1 > Len(fs) THEN 1
        ELSE ProdOver([s \in 1 .. Len(L) |->
                         IF L[s][r][c \div km] = fs[(c % km) + 1][s] \/ L[s][r][c \div km] = 0
                         THEN 1 ELSE 0], 1 .. Len(L))]]

\* lines 98-112: L_aug starts as ones; for the yi-th feasible vector y the
\* columns yi, yi + km, ... are multiplied, for every subtask s, by the
\* indicator of (L[s] == y[s] or L[s] == 0), and then by the indicator of
\* sum(|L[s]|) != 0; a column no yi reaches stays 1
MultiTaskAug(L, fs, km) ==
  [r \in 1 .. NumRows(L[1]) |->
     [c \in 0 .. NumCols(L[1]) * km - 1 |->
        IF (c % km) + 1 > Len(fs) THEN 1
        ELSE ProdOver([s \in 1 .. Len(L) |->
                         IF L[s][r][c \div km] = fs[(c % km) + 1][s] \/ L[s][r][c \div km] = 0
                         THEN 1 ELSE 0], 1 .. Len(L))
             * (IF SumOver([s \in 1 .. Len(L) |->
                              IF L[s][r][c \div km] < 0 THEN -L[s][r][c \div km]
                              ELSE L[s][r][c \div km]], 1 .. Len(L)) # 0
                THEN 1 ELSE 0)]]

\* the whole method when self.multi_task holds
get_augmented_label_matrix_mt(L, k, t, fs, offset, higher_order) ==
  LET acc0 == [L_aug  |-> MultiTaskAug(L, fs, k + 1 - offset),
               c_tree |-> t,
               c_data |-> UnaryCData(L[1], k, offset, t)]
  IN IF higher_order
     THEN Bind(acc0, LAMBDA acc : AugmentItems(acc, TreeItems(t), k + 1 - offset))
     ELSE acc0

\* ------------------------------------------------------- LabelModel._generate_O
\* n * O: entry (a, b) counts the rows in which columns a and b are both 1
generate_O(A) ==
  [a \in 0 .. Width(A) - 1 |->
     [b \in 0 .. Width(A) - 1 |->
        SumOver([r \in 1 .. Len(A) |-> A[r][a] * A[r][b]], 1 .. Len(A))]]

\* the matrix M without row i and column j (indices renumbered from 0)
Minor(M, d, i, j) ==
  [a \in 0 .. d - 2 |->
     [b \in 0 .. d - 2 |->
        M[IF a < i THEN a ELSE a + 1][IF b < j THEN b ELSE b + 1]]]

RECURSIVE Det(_, _)
\* determinant of the d x d integer matrix M, by expansion along row 0
Det(M, d) ==
  IF d = 0 THEN 1
  ELSE IF d = 1 THEN M[0][0]
  ELSE SumOver([j \in 0 .. d - 1 |->
                  IF M[0][j] = 0 THEN 0
                  ELSE (IF j % 2 = 0 THEN 1 ELSE -1) * M[0][j] * Det(Minor(M, d, 0, j), d - 1)],
               0 .. d - 1)

\* an inversion that never fails
Singular_alt(O, d) == FALSE

\* np.linalg.inv raises LinAlgError("Singular matrix") exactly on these
Singular(O, d) == Det(O, d) = 0

\* --------------------------------------------------------- Python dicts on a heap
\* heap[id] is a dict object: the sequence of its items in insertion order.
\* A value is a scalar, or a reference to a dict object (isinstance(v, dict)).
Scalar(n) == [ref |-> 0, val |-> n]
Ref(id) == [ref |-> id, val |-> 0]
IsDict(v) == v.ref # 0
Item(k, v) == [k |-> k, v |-> v]

Keys(d) == {d[i].k : i \in DOMAIN d}
HasKey(d, k) == k \in Keys(d)
GetItem(d, k) == d[CHOOSE i \in DOMAIN d : d[i].k = k].v

\* d[k] = v: an existing key keeps its place, a new key goes last
PutItem(d, k, v) ==
  IF HasKey(d, k) THEN [i \in DOMAIN d |-> IF d[i].k = k THEN Item(k, v) ELSE d[i]]
  ELSE Append(d, Item(k, v))

\* self.config['a']['b']...: follow the path of keys from the dict object id
RECURSIVE Lookup(_, _, _)
Lookup(h, id, path) ==
  LET v == GetItem(h[id], Head(path))
  IN IF Len(path) = 1 THEN v ELSE Lookup(h, v.ref, Tail(path))

\* the dict objects reachable from the objects in S
RefsOf(d) == {d[j].v.ref : j \in {i \in DOMAIN d : IsDict(d[i].v)}}

RECURSIVE Reach(_, _)
Reach(h, S) ==
  LET T == S \cup UNION {RefsOf(h[i]) : i \in S}
  IN IF T = S THEN S ELSE Reach(h, T)

\* Python frees the dict objects no name refers to any more: keep the objects
\* reachable from `roots`, in their order; newid maps the old ids to the new
Collect(h, roots) ==
  Bind(SortedSeq(Reach(h, roots \ {0})),
       LAMBDA kept :
         Bind([i \in 0 .. Len(h) |->
                 IF \E n \in 1 .. Len(kept) : kept[n] = i
                 THEN CHOOSE n \in 1 .. Len(kept) : kept[n] = i
                 ELSE 0],
              LAMBDA newid :
                [h |-> [n \in 1 .. Len(kept) |->
                          [j \in 1 .. Len(h[kept[n]]) |->
                             Item(h[kept[n]][j].k,
                                  IF IsDict(h[kept[n]][j].v)
                                  THEN Ref(newid[h[kept[n]][j].v.ref])
                                  ELSE h[kept[n]][j].v)]],
                 newid |-> newid]))

\* --------------------------------------------------- utils.recursive_merge_dicts
\* The result of recurse / of a merge: the heap after it, the value returned,
\* whether it raised ValueError, and the keys reported as missing (line 169).
MergeOut(h, found, exc, reports) ==
  [h |-> h, found |-> found, exc |-> exc, reports |-> reports]

RECURSIVE recurse(_, _, _, _, _, _)
RECURSIVE SearchNested(_, _, _, _, _, _)
RECURSIVE SearchNested_alt(_, _, _, _, _, _)

\* a search without the break of line 159: it goes on through every dict value
SearchNested_alt(h, x, i, it, found, reports) ==
  IF i > Len(h[x]) THEN MergeOut(h, found, FALSE, reports)
  ELSE Bind(IF IsDict(h[x][i].v)
            THEN recurse(h, h[x][i].v.ref, <<it>>, "ignore", TRUE, reports)
            ELSE MergeOut(h, FALSE, FALSE, reports),
            LAMBDA r : IF r.exc THEN r
                       ELSE SearchNested_alt(r.h, x, i + 1, it, found \/ r.found,
                                             r.reports))

\* lines 154-159: look for the key of item `it` in the dict values of x, in
\* the order of x.items(), from position i on; stop at the first one found
SearchNested(h, x, i, it, found, reports) ==
  IF i > Len(h[x]) THEN MergeOut(h, found, FALSE, reports)
  ELSE Bind(IF IsDict(h[x][i].v)
            THEN recurse(h, h[x][i].v.ref, <<it>>, "ignore", TRUE, reports)
            ELSE MergeOut(h, found, FALSE, reports),
            LAMBDA r : IF r.exc \/ r.found THEN r
                       ELSE SearchNested(r.h, x, i + 1, it, r.found, r.reports))

\* lines 133-172: the loop over y.items(), `items` being what is left of it;
\* found is the value of the variable `found` before the next iteration
recurse(h, x, items, misses, found, reports) ==
  IF items = <<>> THEN MergeOut(h, found, FALSE, reports)
  ELSE
    LET k == Head(items).k
        v == Head(items).v
        Known ==
          LET xk == GetItem(h[x], k)
          IN IF IsDict(xk)
             THEN IF ~IsDict(v) THEN MergeOut(h, TRUE, TRUE, reports)
                  ELSE Bind(recurse(h, xk.ref, h[v.ref], misses, TRUE, reports),
                            LAMBDA n : MergeOut(n.h, TRUE, n.exc, n.reports))
             ELSE MergeOut([h EXCEPT ![x] = PutItem(h[x], k, v)], TRUE, FALSE, reports)
        Missed(r) ==
          IF r.exc \/ r.found THEN r
          ELSE IF misses = "insert"
               THEN MergeOut([r.h EXCEPT ![x] = PutItem(r.h[x], k, v)],
                             FALSE, FALSE, r.reports)
          ELSE IF misses = "exception"
               THEN MergeOut(r.h, FALSE, TRUE, r.reports)
          ELSE IF misses = "report"
               THEN MergeOut(r.h, FALSE, FALSE, Append(r.reports, k))
          ELSE r
    IN Bind(IF HasKey(h[x], k) THEN Known
            ELSE SearchNested(h, x, 1, Head(items), FALSE, reports),
            LAMBDA r :
              Bind(Missed(r),
                   LAMBDA a : IF a.exc THEN a
                              ELSE recurse(a.h, x, Tail(items), misses, a.found, a.reports)))

\* lines 179-181: z = x.copy() is a new dict object with the items of x (the
\* values, references included, are not copied); z is the last heap object
recursive_merge_dicts(h, x, y, misses) ==
  LET h1 == Append(h, h[x])
      z  == Len(h1)
      r  == recurse(h1, z, h1[y], misses, TRUE, <<>>)
  IN [h |-> r.h, z |-> z, exc |-> r.exc, reports |-> r.reports]

\* ------------------------------------------------------------------- the state
VARIABLES
  heap,       \* the dict objects: lm_model_defaults, every config, every kwargs
  config,     \* config[inst]: the dict object that inst.config refers to (0: none)
  self,       \* the attributes of the LabelModel instance (its __dict__)
  c_tree,     \* self.c_tree, the clique tree object, annotated in place
  rng,        \* the state of numpy's global random generator
  pc,         \* where the instance's train call stands ("idle": in no call)
  status,     \* how the last train call ended: "new", "training", "ready", "failed"
  argL,       \* the label matrix of the train call under way
  epoch,      \* the loop variable of _train
  lossLog,    \* the losses evaluated by the _train call, in order
  evaluated,  \* the loss functions the train call has evaluated
  phases,     \* the steps of the train call, in order
  trainCalls, \* the number of train calls made so far
  ret         \* what the last call returned or raised

vars == <<heap, config, self, c_tree, rng, pc, status, argL, epoch,
          lossLog, evaluated, phases, trainCalls, ret>>

\* ------------------------------------------------- label_model.lm_defaults
\* lm_model_defaults and its nested dicts, the first objects of the heap
lm_model_defaults == 1
DefaultsHeap ==
  << <<Item("verbose", Scalar(0)), Item("seed", Scalar(0)), Item("train_config", Ref(2))>>,
     <<Item("l2", Scalar(0)), Item("optimizer_config", Ref(3)),
       Item("n_epochs", Scalar(1)), Item("print_every", Scalar(10))>>,
     <<Item("optimizer_common", Ref(4)), Item("sgd_config", Ref(5))>>,
     <<Item("lr", Scalar(1))>>,
     <<Item("momentum", Scalar(90))>> >>

\* train_config['n_epochs'] as _train reads it (lines 361, 372)
NEpochs(h, cfg) == Lookup(h, cfg, <<"train_config", "n_epochs">>).val

\* ------------------------------------------------------------------ the inputs
K == 2   \* the default number of classes

Classes(k) == 0 .. k - 1

\* the class balance: None (uniform) or a given vector, as weights over their sum
PChoices(k) == {[y \in Classes(k) |-> 1], [y \in Classes(k) |-> y + 1]}

\* the n = m*k rows in which one source emits one value and the others abstain
DiagL(m, k) ==
  [r \in 1 .. m * k |->
     [i \in 0 .. m - 1 |-> IF i = (r - 1) \div k THEN ((r - 1) % k) + 1 ELSE 0]]

\* one row in which all abstain, one in which source i emits (i mod k) + 1
MixedL(m, k) ==
  << [i \in 0 .. m - 1 |-> 0], [i \in 0 .. m - 1 |-> (i % k) + 1] >>

\* every row with labels in {0..k}, once: row r holds the digits of r - 1
AllRowsL(m, k) ==
  [r \in 1 .. Pow(k + 1, m) |->
     [i \in 0 .. m - 1 |-> ((r - 1) \div Pow(k + 1, i)) % (k + 1)]]

\* the rows of MixedL and one more in which every source emits k + 1, a value
\* outside {0..k}
OutOfRangeL(m, k) == Append(MixedL(m, k), [i \in 0 .. m - 1 |-> k + 1])

TrainMatrices(m, k) == {DiagL(m, k), MixedL(m, k), OutOfRangeL(m, k)}
InferenceMatrices(m, k) == {AllRowsL(m, k)}

\* the keyword options a caller passes to train
TrainKwargs == {<<>>} \cup {<<Item("n_epochs", Scalar(e))>> : e \in {0, MaxEpochs}}

\* np.random.random() in percent: the stream numpy's generator yields
RandStream == <<37, 0, 81>>
RandAt(s, j) == RandStream[((s + j) % Len(RandStream)) + 1]

\* a tensor of shape d x k whose entries are finite / are NaN or inf
Tensor(v) == [nan |-> FALSE, v |-> v]
NanTensor == [nan |-> TRUE, v |-> <<>>]
ConstMatrix(d, k, x) == [a \in 0 .. d - 1 |-> [y \in Classes(k) |-> x]]
BiasedMatrix(d, k, hi, lo) ==
  [a \in 0 .. d - 1 |-> [y \in Classes(k) |-> IF a % k = y THEN hi ELSE lo]]

\* torch.randn(d, k): the values Z may start from
ZInits(d, k) == {Tensor(ConstMatrix(d, k, x)) : x \in {-50}}

\* the values optimizer.step() may leave in a d x k parameter, in percent
StepValues(d, k) ==
  {Tensor(BiasedMatrix(d, k, g[1], g[2])) : g \in {<<90, 10>>, <<120, 0>>}}

\* the values a loss may take: finite, NaN, or +inf; NaN when an operand is NaN
LossKinds(nan) == IF nan THEN {"nan"} ELSE {"finite", "nan", "inf"}

\* ---------------------------------------------------------- LabelModel.__init__
\* a variant of line 59 that takes a single edge for the independent regime
inv_form_of_alt(deps) == Cardinality(deps) > 1
\* line 59
inv_form_of(deps) == Cardinality(deps) > 0

\* the attributes __init__ sets (single-task: task_graph is None)
NewModel(m, k, p, deps) ==
  [m |-> m, k |-> k, p |-> p, deps |-> deps, inv_form |-> inv_form_of(deps)]

Has(name) == name \in DOMAIN self

\* ------------------------------------------------------ LabelModel._init_params
\* an initialisation that draws every entry of mu_init from the generator
mu_init_of_alt(d, k, m, s) ==
  [a \in 0 .. d - 1 |-> [y \in Classes(k) |-> RandAt(s, a * k + y)]]

\* lines 198-201: zeros, plus one random draw on the diagonal of each source block
mu_init_of(d, k, m, s) ==
  [a \in 0 .. d - 1 |->
     [y \in Classes(k) |-> IF a < m * k /\ a % k = y THEN RandAt(s, a) ELSE 0]]

InRange(c, a) == c.start_index <= a /\ a < c.end_index

\* a variant of line 215 that compares the two sets of maximal cliques
SameMaxClique_alt(ci, cj) == ci.max_cliques = cj.max_cliques
\* line 215
SameMaxClique(ci, cj) == ci.max_cliques \cap cj.max_cliques # {}

\* lines 207-217: ones, with the blocks of entries that share a maximal clique zeroed
mask_of(c_data, d) ==
  [a \in 0 .. d - 1 |->
     [b \in 0 .. d - 1 |->
        IF \E ki \in DOMAIN c_data : \E kj \in DOMAIN c_data :
             /\ SameMaxClique(c_data[ki], c_data[kj])
             /\ \/ InRange(c_data[ki], a) /\ InRange(c_data[kj], b)
                \/ InRange(c_data[kj], a) /\ InRange(c_data[ki], b)
        THEN 0 ELSE 1]]

\* ------------------------------------------------------------- the loss functions
\* a variant of line 282 that indexes with the inverted mask
loss_inv_Z_entries_alt(mask, d) ==
  {e \in (0 .. d - 1) \X (0 .. d - 1) : mask[e[1]][e[2]] = 0}
\* line 282: the entries of O_inv + Z Z' that enter the norm, (...)[self.mask]
loss_inv_Z_entries(mask, d) ==
  {e \in (0 .. d - 1) \X (0 .. d - 1) : mask[e[1]][e[2]] = 1}

\* lines 302-303: the entries of O - mu P mu' that enter the first norm of loss_mu
loss_mu_entries(mask, d) ==
  {e \in (0 .. d - 1) \X (0 .. d - 1) : mask[e[1]][e[2]] = 1}

\* line 296: loss_inv_mu takes the norm of all of Q - mu P mu'
loss_inv_mu_entries(mask, d) == (0 .. d - 1) \X (0 .. d - 1)

\* --------------------------------------------------- LabelModel.get_label_probs
\* np.clip(x, lo, hi)
Clip(x, lo, hi) == IF x < lo THEN lo ELSE IF x > hi THEN hi ELSE x

\* line 261
UsesJunctionTree(deps) == Cardinality(deps) > 0

\* lines 265-272 read start_index / end_index of every node and edge
Annotated(t) ==
  /\ \A i \in TreeNodes(t) : "start_index" \in DOMAIN t.nodes[i]
  /\ \A e \in TreeEdges(t) : "start_index" \in DOMAIN t.edges[e]

\* lines 261-274: the junction tree mask over the w columns of L_aug
jtm_of(t, deps, w) ==
  IF UsesJunctionTree(deps)
  THEN [c \in 0 .. w - 1 |->
          IF \/ \E i \in TreeNodes(t) : InRange(t.nodes[i], c)
             \/ \E e \in TreeEdges(t) : InRange(t.edges[e], c)
          THEN 1 ELSE 0]
  ELSE [c \in 0 .. w - 1 |-> 1]

\* lines 277-279, one row: X = exp(L_aug diag(jtm) log(mu) + log p), X / sum(X);
\* an entry is the fraction num / den, or NaN
PosteriorRow(row, jtm, mu, p, k) ==
  LET w    == Cardinality(DOMAIN row)
      on   == {c \in 0 .. w - 1 : row[c] * jtm[c] = 1}
      X    == [y \in Classes(k) |-> p[y] * ProdOver([c \in on |-> mu[c][y]], on)]
      Z    == SumOver(X, Classes(k))
  IN [y \in Classes(k) |-> [num |-> X[y], den |-> Z, nan |-> (Z = 0)]]

NanRow(k) == [y \in Classes(k) |-> [num |-> 0, den |-> 0, nan |-> TRUE]]

Raised(op, exc) ==
  [op |-> op, exc |-> exc, val |-> <<>>, jtm |-> <<>>, L |-> <<>>, aug |-> <<>>, args |-> <<>>]

\* an inference that builds the augmented matrix with higher_order=True
get_label_probs_alt(me, t, L) ==
  [ret    |-> Raised("get_label_probs", "ValueError"),
   c_data |-> get_augmented_label_matrix(L, me.k, t, 1, TRUE).c_data]

\* the whole method: what it returns or raises, and the c_data it leaves
get_label_probs(me, t, L) ==
  LET aug == get_augmented_label_matrix(L, me.k, t, 1, FALSE)
      w   == Width(aug.L_aug)
      out ==
        IF "mu" \notin DOMAIN me THEN Raised("get_label_probs", "AttributeError")
        ELSE IF UsesJunctionTree(me.deps) /\ ~Annotated(t)
        THEN Raised("get_label_probs", "KeyError")
        ELSE IF w # me.d THEN Raised("get_label_probs", "ValueError")
        ELSE LET jtm == jtm_of(t, me.deps, w)
                 mu  == [a \in 0 .. me.d - 1 |->
                           [y \in Classes(me.k) |->
                              IF me.mu.nan THEN 0 ELSE Clip(me.mu.v[a][y], 1, 99)]]
             IN [op  |-> "get_label_probs", exc |-> "none",
                 val |-> [r \in 1 .. Len(aug.L_aug) |->
                            IF me.mu.nan THEN NanRow(me.k)
                            ELSE PosteriorRow(aug.L_aug[r], jtm, mu, me.p, me.k)],
                 jtm |-> jtm, L |-> L, aug |-> <<>>, args |-> <<>>]
  IN [ret |-> out, c_data |-> aug.c_data]

\* ------------------------------------------------------------------------ Init
Instances == {"A", "B"}

\* a model LabelModel(m, k, p=p, deps=deps) has just been constructed as A
Init ==
  \E m \in 1 .. MaxM : \E deps \in DepSets(m) : \E p \in PChoices(K) :
    LET h1 == Append(DefaultsHeap, <<>>)
        r  == recursive_merge_dicts(h1, lm_model_defaults, Len(h1), "report")
        g  == Collect(r.h, {lm_model_defaults, r.z})
    IN /\ heap = g.h
       /\ config = [i \in Instances |-> IF i = "A" THEN g.newid[r.z] ELSE 0]
       /\ self = NewModel(m, K, p, deps)
       /\ c_tree = get_clique_tree(m, deps)
       /\ rng = 0
       /\ pc = "idle"
       /\ status = "new"
       /\ argL = <<>>
       /\ epoch = 0
       /\ lossLog = <<>>
       /\ evaluated = {}
       /\ phases = <<>>
       /\ trainCalls = 0
       /\ ret = Raised("__init__", "none")

\* ------------------------------------------------------------ LabelModel.train
\* A frame holds what the steps of one train call work on: the attributes of
\* the instance, numpy's generator and the log of the steps taken.
Frame(me, s, log) == [self |-> me, rng |-> s, phases |-> log]

\* _generate_O (lines 160-176), called at line 351 or through line 334
StepGenerateO(f, t, L) ==
  LET aug == get_augmented_label_matrix(L, f.self.k, t, 1, FALSE)
      upd == [t |-> 1, n |-> NumRows(L), m |-> NumCols(L),
              c_data |-> aug.c_data, d |-> Width(aug.L_aug),
              O |-> generate_O(aug.L_aug)]
  IN Frame(upd @@ f.self, f.rng, Append(f.phases, "O"))

\* _generate_O_inv, line 181 (when np.linalg.inv returns)
StepGenerateOInv(f) ==
  Frame([O_inv |-> [inverse_of |-> f.self.O]] @@ f.self, f.rng, Append(f.phases, "O_inv"))

\* _init_params (lines 183-217); z is what torch.randn yields
StepInitParams(f, z) ==
  LET me  == f.self
      mi  == mu_init_of(me.d, me.k, me.m, f.rng)
      upd == [mu_init |-> mi, mu |-> Tensor(mi), mask |-> mask_of(me.c_data, me.d)]
  IN Frame(IF me.inv_form THEN ([Z |-> z] @@ upd) @@ me ELSE upd @@ me,
           (f.rng + me.m * me.k) % Len(RandStream),
           Append(f.phases, "init_params"))

\* lines 327-335 / 351-352 and the call of _train at line 340 / 357: merge the
\* keyword options into the config, compute O (and O_inv), initialise the
\* parameters and enter the first fitting loop
TrainCall(L, kw, limit) ==
  /\ pc = "idle"
  /\ trainCalls < limit
  /\ LET h1 == Append(heap, kw)
         r  == recursive_merge_dicts(h1, config["A"], Len(h1), "ignore")
         c  == [config EXCEPT !["A"] = r.z]
         g  == Collect(r.h, {lm_model_defaults} \cup {c[i] : i \in Instances})
         f1 == StepGenerateO(Frame(self, rng, <<>>), c_tree, L)
     IN /\ ~r.exc
        /\ heap' = g.h
        /\ config' = [i \in Instances |-> g.newid[c[i]]]
        /\ IF f1.self.inv_form /\ Singular(f1.self.O, f1.self.d)
           THEN /\ self' = f1.self
                /\ rng' = f1.rng
                /\ phases' = f1.phases
                /\ pc' = "idle"
                /\ status' = "failed"
                /\ ret' = Raised("train", "LinAlgError")
           ELSE \E z \in ZInits(f1.self.d, f1.self.k) :
                  LET f2 == IF f1.self.inv_form THEN StepGenerateOInv(f1) ELSE f1
                      f3 == StepInitParams(f2, z)
                  IN /\ self' = f3.self
                     /\ rng' = f3.rng
                     /\ phases' = Append(f3.phases,
                                         IF f3.self.inv_form THEN "fit_Z" ELSE "fit_mu")
                     /\ pc' = IF f3.self.inv_form THEN "loop_Z" ELSE "loop_mu"
                     /\ status' = "training"
                     /\ ret' = Raised("train", "running")
  /\ argL' = L
  /\ epoch' = 0
  /\ lossLog' = <<>>
  /\ evaluated' = {}
  /\ trainCalls' = trainCalls + 1
  /\ UNCHANGED c_tree

\* a train call, while the instance has had fewer than MaxTrainCalls of them
TrainSetup(L, kw) == TrainCall(L, kw, MaxTrainCalls)

\* ----------------------------------------------------------- LabelModel._train
\* the loss function train passes to _train at lines 340, 346, 357
LossFn(at, inv_form) ==
  IF at = "loop_Z" THEN "loss_inv_Z"
  ELSE IF inv_form THEN "loss_inv_mu" ELSE "loss_mu"

\* an optimiser that moves mu whatever the loss
ParamOf_alt(fn) == "mu"

\* the parameter the gradient of that loss moves
ParamOf(fn) == IF fn = "loss_inv_Z" THEN "Z" ELSE "mu"

LossEntries(fn, mask, d) ==
  IF fn = "loss_inv_Z" THEN loss_inv_Z_entries(mask, d)
  ELSE IF fn = "loss_mu" THEN loss_mu_entries(mask, d)
  ELSE loss_inv_mu_entries(mask, d)

\* whether a tensor the loss reads holds NaN: Z, or mu and (line 296) Q, which
\* get_Q computes from Z
LossReadsNan(fn, me) ==
  IF fn = "loss_inv_Z" THEN me.Z.nan
  ELSE IF fn = "loss_inv_mu" THEN me.mu.nan \/ me.Q.Z.nan
  ELSE me.mu.nan

\* a loop without the guard: the step is taken whatever the loss
LossRaises_never(loss) == FALSE

\* a guard that also ends training on an infinite loss
LossRaises_alt(loss) == loss \in {"nan", "inf"}

\* line 378: the guard that ends training
LossRaises(loss) == loss = "nan"

\* line 379: the arguments of the Exception raised, each a text and the values
\* formatted into it; the message is a constant string
LossIsNanArgs ==
  <<[text |-> "Loss is NaN. Consider reducing learning rate.", values |-> <<>>]>>

\* lines 372-382, one epoch: the loss, the NaN guard, backward and step
Epoch ==
  /\ pc \in {"loop_Z", "loop_mu"}
  /\ epoch < NEpochs(heap, config["A"])
  /\ LET fn == LossFn(pc, self.inv_form)
         w  == ParamOf(fn)
     IN \E loss \in LossKinds(LossReadsNan(fn, self)) :
          /\ lossLog' = Append(lossLog,
                               [fn |-> fn, epoch |-> epoch, loss |-> loss,
                                entries |-> LossEntries(fn, self.mask, self.d)])
          /\ evaluated' = evaluated \cup {fn}
          /\ IF LossRaises(loss)
             THEN /\ pc' = "idle"
                  /\ status' = "failed"
                  /\ ret' = [Raised("train", "Exception") EXCEPT !.args = LossIsNanArgs]
                  /\ UNCHANGED <<self, epoch>>
             ELSE /\ \E new \in StepValues(self.d, self.k) :
                       self' = [self EXCEPT ![w] = IF loss = "inf" THEN NanTensor ELSE new]
                  /\ epoch' = epoch + 1
                  /\ UNCHANGED <<pc, status, ret>>
  /\ UNCHANGED <<heap, config, c_tree, rng, argL, phases, trainCalls>>

\* line 372: the loop is over; _train returns to train
LoopEnd ==
  /\ pc \in {"loop_Z", "loop_mu"}
  /\ epoch >= NEpochs(heap, config["A"])
  /\ IF pc = "loop_Z"
     THEN /\ pc' = "get_Q"
          /\ UNCHANGED <<status, ret, phases>>
     ELSE /\ pc' = "idle"
          /\ status' = "ready"
          /\ ret' = Raised("train", "none")
          /\ phases' = Append(phases, "ready")
  /\ UNCHANGED <<heap, config, self, c_tree, rng, argL, epoch, lossLog, evaluated, trainCalls>>

\* line 341: Q = get_Q() (lines 284-293), then line 346: _train(loss_inv_mu)
GetQ ==
  /\ pc = "get_Q"
  /\ self' = [Q |-> [O |-> self.O, Z |-> self.Z]] @@ self
  /\ pc' = "loop_mu"
  /\ phases' = phases \o <<"Q", "fit_mu">>
  /\ epoch' = 0
  /\ lossLog' = <<>>
  /\ UNCHANGED <<heap, config, c_tree, rng, status, argL, evaluated, trainCalls, ret>>

\* ------------------------------------------------------------- the other calls
\* get_label_probs(L) / predict_proba(L), lines 252-279
GetLabelProbs(L) ==
  /\ pc = "idle"
  /\ LET r == get_label_probs(self, c_tree, L)
     IN /\ ret' = r.ret
        /\ self' = [c_data |-> r.c_data] @@ self
  /\ UNCHANGED <<heap, config, c_tree, rng, pc, status, argL, epoch, lossLog, evaluated,
                 phases, trainCalls>>

\* _get_augmented_label_matrix(L, higher_order=True), called on its own
AugmentHigherOrder(L) ==
  /\ pc = "idle"
  /\ LET aug == get_augmented_label_matrix(L, self.k, c_tree, 1, TRUE)
     IN /\ self' = [c_data |-> aug.c_data] @@ self
        /\ c_tree' = aug.c_tree
        /\ ret' = [Raised("augment", "none") EXCEPT !.aug = aug.L_aug, !.L = L]
  /\ UNCHANGED <<heap, config, rng, pc, status, argL, epoch, lossLog, evaluated, phases,
                 trainCalls>>

Next ==
  \/ \E L \in TrainMatrices(self.m, self.k) : \E kw \in TrainKwargs : TrainSetup(L, kw)
  \/ Epoch
  \/ LoopEnd
  \/ GetQ
  \/ \E L \in InferenceMatrices(self.m, self.k) : GetLabelProbs(L)
  \/ \E L \in InferenceMatrices(self.m, self.k) : AugmentHigherOrder(L)

Spec == Init /\ [][Next]_vars

\* A train call is one sequential execution: once entered, the interpreter
\* runs its statements one after the other, so each step of the call that is
\* enabled is eventually taken.
SpecFair == Spec /\ WF_vars(Epoch) /\ WF_vars(LoopEnd) /\ WF_vars(GetQ)

\* ===================================================== train called again
\* A specification of the train calls alone: train(L) is called on the
\* instance, without keyword options, once more than in Spec.
NextRetrain ==
  \/ \E L \in TrainMatrices(self.m, self.k) : TrainCall(L, <<>>, MaxTrainCalls + 1)
  \/ Epoch
  \/ LoopEnd
  \/ GetQ

SpecRetrain == Init /\ [][NextRetrain]_vars

\* ================================================ the augmented matrix alone
\* A third specification follows _get_augmented_label_matrix only: a model is
\* constructed over some dependency graph and the method is called on it with
\* any label matrix, offset and higher_order, in any order.

\* the three sources that depend on each other pairwise
Triangle == {<<0, 1>>, <<0, 2>>, <<1, 2>>}
\* two such triples that share the pair (1, 2)
Diamond == {<<0, 1>>, <<0, 2>>, <<1, 2>>, <<1, 3>>, <<2, 3>>}

\* the models: m sources and the dependency edges between them
AugModels ==
  {[m |-> m, deps |-> E] : m \in 1 .. MaxM, E \in {{}}}
    \cup {[m |-> MaxM, deps |-> E] : E \in DepSets(MaxM)}
    \cup {[m |-> Cardinality(UNION {{e[1], e[2]} : e \in E}), deps |-> E] :
             E \in {Triangle, Diamond}}

\* k + 1 rows; in row r source i emits (r + i) mod (k + 1)
ShiftL(m, k) == [r \in 1 .. k + 1 |-> [i \in 0 .. m - 1 |-> (r + i) % (k + 1)]]

AugMatrices(m, k) == {MixedL(m, k), ShiftL(m, k)}

InitAug ==
  \E md \in AugModels : \E k \in 2 .. MaxK :
    LET h1 == Append(DefaultsHeap, <<>>)
        r  == recursive_merge_dicts(h1, lm_model_defaults, Len(h1), "report")
        g  == Collect(r.h, {lm_model_defaults, r.z})
    IN /\ heap = g.h
       /\ config = [i \in Instances |-> IF i = "A" THEN g.newid[r.z] ELSE 0]
       /\ self = NewModel(md.m, k, [y \in Classes(k) |-> 1], md.deps)
       /\ c_tree = get_clique_tree(md.m, md.deps)
       /\ rng = 0
       /\ pc = "idle"
       /\ status = "new"
       /\ argL = <<>>
       /\ epoch = 0
       /\ lossLog = <<>>
       /\ evaluated = {}
       /\ phases = <<>>
       /\ trainCalls = 0
       /\ ret = Raised("__init__", "none")

\* _get_augmented_label_matrix(L, offset, higher_order): ret keeps the matrix
\* returned and the arguments of the call
Augment(L, offset, higher_order) ==
  /\ pc = "idle"
  /\ LET aug == get_augmented_label_matrix(L, self.k, c_tree, offset, higher_order)
     IN /\ self' = [c_data |-> aug.c_data] @@ self
        /\ c_tree' = aug.c_tree
        /\ ret' = [op |-> "augment", exc |-> "none", aug |-> aug.L_aug, L |-> L,
                   offset |-> offset, higher_order |-> higher_order]
  /\ UNCHANGED <<heap, config, rng, pc, status, argL, epoch, lossLog, evaluated, phases,
                 trainCalls>>

NextAug ==
  \E L \in AugMatrices(self.m, self.k) : \E offset \in {0, 1} :
    \E higher_order \in BOOLEAN : Augment(L, offset, higher_order)

SpecAug == InitAug /\ [][NextAug]_vars

\* ============================================ the multi-task augmented matrix
\* A further specification follows _get_augmented_label_matrix on a model
\* constructed with a task graph.

\* list(task_graph.feasible_set()) of two task graphs: two independent binary
\* tasks, and TaskHierarchy(edges=[(0,1), (0,2)], cardinalities=[2,2,2]), in
\* which 0 marks a subtask that does not apply
TwoTasks == << <<1, 1>>, <<1, 2>>, <<2, 1>>, <<2, 2>> >>
TaskHierarchy == << <<1, 1, 0>>, <<1, 2, 0>>, <<2, 0, 1>>, <<2, 0, 2>> >>
TaskGraphs == {TwoTasks, TaskHierarchy}

\* generate.py lines 139-146: the single-task matrix L split into one matrix
\* per subtask, a label v > 0 becoming the components of fs[v]
SplitL(L, fs) ==
  [s \in 1 .. Len(fs[1]) |->
     [r \in 1 .. NumRows(L) |->
        [j \in DOMAIN L[r] |-> IF L[r][j] > 0 THEN fs[L[r][j]][s] ELSE 0]]]

\* the matrices of Ls in which the sources abstain on every subtask but s
OnlySubtask(Ls, s) ==
  [u \in 1 .. Len(Ls) |->
     [r \in 1 .. NumRows(Ls[u]) |->
        [j \in DOMAIN Ls[u][r] |-> IF u = s THEN Ls[u][r][j] ELSE 0]]]

MTMatrices(m, fs) ==
  {SplitL(ShiftL(m, Len(fs)), fs), SplitL(MixedL(m, Len(fs)), fs),
   OnlySubtask(SplitL(ShiftL(m, Len(fs)), fs), 1)}

\* LabelModel(m, task_graph=..., deps=...): k is len(task_graph)
InitMT ==
  \E m \in 1 .. MaxM : \E fs \in TaskGraphs : \E deps \in {{}, {<<0, m - 1>>} \cap Pairs(m)} :
    LET h1 == Append(DefaultsHeap, <<>>)
        r  == recursive_merge_dicts(h1, lm_model_defaults, Len(h1), "report")
        g  == Collect(r.h, {lm_model_defaults, r.z})
    IN /\ heap = g.h
       /\ config = [i \in Instances |-> IF i = "A" THEN g.newid[r.z] ELSE 0]
       /\ self = [task_graph |-> fs]
                   @@ NewModel(m, Len(fs), [y \in Classes(Len(fs)) |-> 1], deps)
       /\ c_tree = get_clique_tree(m, deps)
       /\ rng = 0
       /\ pc = "idle"
       /\ status = "new"
       /\ argL = <<>>
       /\ epoch = 0
       /\ lossLog = <<>>
       /\ evaluated = {}
       /\ phases = <<>>
       /\ trainCalls = 0
       /\ ret = Raised("__init__", "none")

\* _get_augmented_label_matrix(L, offset, higher_order) on the multi-task model
AugmentMT(L, offset, higher_order) ==
  /\ pc = "idle"
  /\ LET aug == get_augmented_label_matrix_mt(L, self.k, c_tree, self.task_graph,
                                              offset, higher_order)
     IN /\ self' = [c_data |-> aug.c_data] @@ self
        /\ c_tree' = aug.c_tree
        /\ ret' = [op |-> "augment", exc |-> "none", aug |-> aug.L_aug, L |-> L,
                   offset |-> offset, higher_order |-> higher_order]
  /\ UNCHANGED <<heap, config, rng, pc, status, argL, epoch, lossLog, evaluated, phases,
                 trainCalls>>

NextMT ==
  \E L \in MTMatrices(self.m, self.task_graph) : \E offset \in {0, 1} :
    \E higher_order \in BOOLEAN : AugmentMT(L, offset, higher_order)

SpecMT == InitMT /\ [][NextMT]_vars

\* ================================================== analysis.error_buckets
\* A further specification follows the pure function error_buckets: the
\* initial state holds its arguments, the one action applies it.

\* the labels of a binary problem: 1 = positive, 2 = negative
BinaryLabels == {1, 2}

\* utils.arraylike_to_numpy on a 1-d list of ints: the array of the same ints
arraylike_to_numpy(array_like) == [i \in 1 .. Len(array_like) |-> array_like[i]]

\* X is None, or a list of items
NoItems == [none |-> TRUE, items |-> <<>>]
ItemList(n) == [none |-> FALSE, items |-> [i \in 1 .. n |-> 100 + i]]

\* line 32, the value appended for position i (Python counts from 0)
BucketEntry(X, i) == IF X.none THEN i - 1 ELSE X.items[i]

\* lines 28-33: a defaultdict(list) keyed by the pair the loop builds from
\* zip(gold, pred); each list is in the order of the positions
error_buckets(gold, pred, X) ==
  LET g == arraylike_to_numpy(gold)
      p == arraylike_to_numpy(pred)
      n == IF Len(g) <= Len(p) THEN Len(g) ELSE Len(p)
      keys == {<<g[i], p[i]>> : i \in 1 .. n}
  IN [c \in keys |->
        LET at == SortedSeq({i \in 1 .. n : g[i] = c[1] /\ p[i] = c[2]})
        IN [j \in 1 .. Len(at) |-> BucketEntry(X, at[j])]]

\* buckets[key] on the defaultdict: a missing key reads as the empty list
BucketAt(buckets, key) == IF key \in DOMAIN buckets THEN buckets[key] ELSE <<>>

LabelVectors(n) == [1 .. n -> BinaryLabels]

InitBuckets ==
  \E n \in 0 .. MaxN : \E gold \in LabelVectors(n) : \E pred \in LabelVectors(n) :
    \E X \in {NoItems, ItemList(n)} :
      /\ heap = <<>>
      /\ config = <<>>
      /\ self = <<>>
      /\ c_tree = <<>>
      /\ rng = 0
      /\ pc = "idle"
      /\ status = "new"
      /\ argL = [gold |-> gold, pred |-> pred, X |-> X]
      /\ epoch = 0
      /\ lossLog = <<>>
      /\ evaluated = {}
      /\ phases = <<>>
      /\ trainCalls = 0
      /\ ret = Raised("none", "none")

\* error_buckets(gold, pred, X)
ErrorBuckets ==
  /\ pc = "idle"
  /\ ret' = [op |-> "error_buckets", exc |-> "none",
             buckets |-> error_buckets(argL.gold, argL.pred, argL.X)]
  /\ UNCHANGED <<heap, config, self, c_tree, rng, pc, status, argL, epoch, lossLog,
                 evaluated, phases, trainCalls>>

NextBuckets == ErrorBuckets

SpecBuckets == InitBuckets /\ [][NextBuckets]_vars

\* ====================================================== the config dicts alone
\* A second specification follows the dict objects only: lm_model_defaults is
\* loaded, instances A and B are constructed and reconfigured in any order,
\* and recursive_merge_dicts is also called directly.

\* A dict literal: its objects, the first being the dict itself; a reference
\* inside a literal counts from the literal's first object
EmptyDict == << <<>> >>
FlatEpochs == << <<Item("n_epochs", Scalar(MaxEpochs))>> >>
FlatSeed == << <<Item("seed", Scalar(1))>> >>
NestedTrain ==
  << <<Item("train_config", Ref(2))>>,
     <<Item("n_epochs", Scalar(0)), Item("foo", Scalar(1))>> >>
EpochsAndUnknown ==
  << <<Item("n_epochs", Scalar(MaxEpochs)), Item("foo", Scalar(1))>> >>
UnknownDict ==
  << <<Item("bar", Ref(2)), Item("baz", Scalar(2))>>, <<Item("baz", Scalar(1))>> >>
\* a dict that holds n_epochs in two of its nested dicts
TwoNests ==
  << <<Item("first", Ref(2)), Item("second", Ref(4))>>,
     <<Item("l2", Scalar(0)), Item("deep", Ref(3))>>,
     <<Item("n_epochs", Scalar(1))>>,
     <<Item("n_epochs", Scalar(1))>> >>

\* the keyword options given at construction, the dicts given to
\* update_config, and the dicts recursive_merge_dicts is called with directly
ConstructKwargs == {EmptyDict, FlatEpochs, NestedTrain}
UpdateDicts == {NestedTrain, EpochsAndUnknown}
MergeDicts == {FlatSeed, FlatEpochs, NestedTrain, EpochsAndUnknown, UnknownDict}
\* the keyword options given to train: those of TrainKwargs, and an option
\* that no config dict knows
TrainConfigKwargs == {<<kw>> : kw \in TrainKwargs} \cup {EpochsAndUnknown}

MissesModes == {"insert", "exception", "report", "ignore"}

\* evaluating a literal creates its objects on the heap
Load(h, lit) ==
  [h |-> h \o [n \in 1 .. Len(lit) |->
                [j \in 1 .. Len(lit[n]) |->
                   Item(lit[n][j].k,
                        IF IsDict(lit[n][j].v) THEN Ref(lit[n][j].v.ref + Len(h))
                        ELSE lit[n][j].v)]],
   root |-> Len(h) + 1]

RECURSIVE DeepValue(_, _)
\* the value of the dict object id, nested dicts included
DeepValue(h, id) ==
  [i \in 1 .. Len(h[id]) |->
     [k     |-> h[id][i].k,
      dict  |-> IsDict(h[id][i].v),
      val   |-> h[id][i].v.val,
      items |-> IF IsDict(h[id][i].v) THEN DeepValue(h, h[id][i].v.ref) ELSE <<>>]]

\* the values of the configs of the instances in S (none: the empty dict)
ConfigValues(h, c, S) ==
  [i \in S |-> IF c[i] = 0 THEN <<>> ELSE DeepValue(h, c[i])]

\* one call z = recursive_merge_dicts(x, lit, misses) made for instance inst
\* by `op`; rebind tells whether inst.config is bound to z when it returns.
\* ret keeps the values of the arguments before and after, the value of the
\* result z and the keys whose miss was printed (reports)
MergeCallOn(h0, op, inst, x, lit, misses, rebind) ==
  LET ld     == Load(h0, lit)
      r      == recursive_merge_dicts(ld.h, x, ld.root, misses)
      others == Instances \ {inst}
      c      == IF rebind /\ ~r.exc THEN [config EXCEPT ![inst] = r.z] ELSE config
      g      == Collect(r.h, {lm_model_defaults} \cup {c[i] : i \in Instances})
  IN /\ heap' = g.h
     /\ config' = [i \in Instances |-> g.newid[c[i]]]
     /\ ret' = [op |-> op, inst |-> inst, misses |-> misses,
                exc |-> IF r.exc THEN "ValueError" ELSE "none",
                x_before |-> DeepValue(ld.h, x),
                x_after  |-> DeepValue(r.h, x),
                y_before |-> DeepValue(ld.h, ld.root),
                y_after  |-> DeepValue(r.h, ld.root),
                z        |-> IF r.exc THEN <<>> ELSE DeepValue(r.h, r.z),
                reports  |-> r.reports,
                defaults_before |-> DeepValue(heap, lm_model_defaults),
                defaults_after  |-> DeepValue(r.h, lm_model_defaults),
                others_before |-> ConfigValues(heap, config, others),
                others_after  |-> ConfigValues(r.h, config, others)]
     /\ UNCHANGED <<self, c_tree, rng, pc, status, argL, epoch, lossLog, evaluated, phases,
                    trainCalls>>

\* the call made on the heap as it is
MergeCall(op, inst, x, lit, misses, rebind) ==
  MergeCallOn(heap, op, inst, x, lit, misses, rebind)

\* lm_model_defaults has been imported; no instance exists yet
InitCfg ==
  /\ heap = DefaultsHeap
  /\ config = [i \in Instances |-> 0]
  /\ self = NewModel(1, K, [y \in Classes(K) |-> 1], {})
  /\ c_tree = get_clique_tree(1, {})
  /\ rng = 0
  /\ pc = "idle"
  /\ status = "new"
  /\ argL = <<>>
  /\ epoch = 0
  /\ lossLog = <<>>
  /\ evaluated = {}
  /\ phases = <<>>
  /\ trainCalls = 0
  /\ ret = [op |-> "import", exc |-> "none"]

\* LabelModel(m, **kwargs), line 34
Construct(inst, kw) ==
  /\ config[inst] = 0
  /\ MergeCall("__init__", inst, lm_model_defaults, kw, "report", TRUE)

\* update_config(update_dict), line 63
UpdateConfig(inst, d) ==
  /\ config[inst] # 0
  /\ MergeCall("update_config", inst, config[inst], d, "report", TRUE)

\* train(L, **kwargs), lines 327-328: the merge of its keyword options
TrainConfig(inst, kw) ==
  /\ config[inst] # 0
  /\ MergeCall("train", inst, config[inst], kw, "ignore", TRUE)

\* recursive_merge_dicts(x, y, misses) called on its own, its result dropped
DirectMerge(x, y, misses) ==
  /\ x # 0
  /\ MergeCall("recursive_merge_dicts", "A", x, y, misses, FALSE)

\* recursive_merge_dicts(x, y, misses) called on a dict x written out in the call
DirectMergeLiteral(xlit, y, misses) ==
  LET lx == Load(heap, xlit)
  IN MergeCallOn(lx.h, "recursive_merge_dicts", "A", lx.root, y, misses, FALSE)

NextCfg ==
  \/ \E inst \in Instances : \E kw \in ConstructKwargs : Construct(inst, kw)
  \/ \E inst \in Instances : \E d \in UpdateDicts : UpdateConfig(inst, d)
  \/ \E inst \in Instances : \E kw \in TrainConfigKwargs : TrainConfig(inst, kw)
  \/ \E x \in {lm_model_defaults, config["A"]} :
       \E y \in MergeDicts : \E misses \in MissesModes : DirectMerge(x, y, misses)
  \/ \E y \in {FlatEpochs, EpochsAndUnknown} :
       \E misses \in MissesModes : DirectMergeLiteral(TwoNests, y, misses)

SpecCfg == InitCfg /\ [][NextCfg]_vars

\* ================================================================== properties
IsPrefix(s, t) == Len(s) <= Len(t) /\ \A i \in 1 .. Len(s) : s[i] = t[i]

\* the phases of a train call, in the order of the two regimes
DepOrder == <<"O", "O_inv", "init_params", "fit_Z", "Q", "fit_mu", "ready">>
IndepOrder == <<"O", "init_params", "fit_mu", "ready">>

\* C1: every train call runs its phases in the order O, (O_inv, fit Z, Q,)
\* fit mu, ready; the fit-Z / Q / O_inv steps occur exactly when a dependency
\* edge was declared; with dependencies loss_mu is never evaluated, without
\* them O_inv, Z and Q are never computed.
C1_PhaseOrder ==
  LET order == IF self.deps # {} THEN DepOrder ELSE IndepOrder
  IN /\ IsPrefix(phases, order)
     /\ status = "ready" => phases = order
     /\ self.deps # {} => "loss_mu" \notin evaluated
     /\ self.deps = {} =>
          /\ evaluated \subseteq {"loss_mu"}
          /\ ~Has("O_inv") /\ ~Has("Z") /\ ~Has("Q")

\* a train call with a dependency edge has run to the end, through fit Z and Q
C1_Witness ==
  /\ self.deps # {}
  /\ status = "ready"
  /\ phases = DepOrder
  /\ evaluated = {"loss_inv_Z", "loss_inv_mu"}
  /\ Has("Q")

\* C2: after a train call that ended with a fatal error, get_label_probs does
\* not return a posterior matrix.
C2_FailedNotCallable ==
  ~(status = "failed" /\ ret.op = "get_label_probs" /\ ret.exc = "none")

\* C3: a loss that is not finite ends training at once: it is the last loss
\* evaluated and the train call has failed.
C3_NonFiniteStops ==
  \A i \in 1 .. Len(lossLog) :
    lossLog[i].loss # "finite" => (i = Len(lossLog) /\ status = "failed")

\* a posterior entry num / den lies in [0, 1]
IsProb(x) == ~x.nan /\ x.den > 0 /\ 0 <= x.num /\ x.num <= x.den

\* the entries of a posterior row sum to 1
SumsToOne(row) ==
  SumOver([y \in DOMAIN row |-> row[y].num], DOMAIN row) = row[CHOOSE y \in DOMAIN row : TRUE].den

\* C4: on a fitted model get_label_probs returns an n x k matrix whose entries
\* lie in [0, 1] and whose rows sum to 1; it never ends in an error.
C4_RowStochastic ==
  (status = "ready" /\ ret.op = "get_label_probs") =>
    /\ ret.exc = "none"
    /\ Len(ret.val) = Len(ret.L)
    /\ \A r \in 1 .. Len(ret.val) :
         /\ DOMAIN ret.val[r] = Classes(self.k)
         /\ \A y \in Classes(self.k) : IsProb(ret.val[r][y])
         /\ SumsToOne(ret.val[r])

\* the columns start_index .. end_index - 1 of C exist in jtm and weigh 1
RangeWeighted(C, jtm) ==
  /\ "start_index" \in DOMAIN C
  /\ \A c \in C.start_index .. C.end_index - 1 : c \in DOMAIN jtm /\ jtm[c] = 1

\* C5: with a dependency declared, get_label_probs on a trained model weighs
\* with 1 every column of the range of every clique-tree node and edge, the
\* ranges being columns of the augmented matrix the call has built.
C5_JtmRanges ==
  (status = "ready" /\ self.deps # {} /\ ret.op = "get_label_probs") =>
    /\ ret.exc = "none"
    /\ \A i \in TreeNodes(c_tree) : RangeWeighted(c_tree.nodes[i], ret.jtm)
    /\ \A e \in TreeEdges(c_tree) : RangeWeighted(c_tree.edges[e], ret.jtm)

\* row r of L holds only abstains
AllAbstain(L, r) == \A i \in DOMAIN L[r] : L[r][i] = 0

\* the posterior row equals the class balance p (p holds weights)
EqualsPrior(row, p) ==
  \A y \in DOMAIN row :
    ~row[y].nan /\ row[y].num * SumOver(p, DOMAIN p) = p[y] * row[y].den

\* C6: on a fitted model a row in which every source abstains gets the
\* posterior p, and the call does not end in an error.
C6_AbstainRowIsPrior ==
  (status = "ready" /\ ret.op = "get_label_probs") =>
    /\ ret.exc = "none"
    /\ \A r \in 1 .. Len(ret.L) : AllAbstain(ret.L, r) => EqualsPrior(ret.val[r], self.p)

\* the sources owning columns a and b lie in one maximal clique, a node of
\* the clique tree
ShareMaxClique(a, b) ==
  \E n \in TreeNodes(c_tree) :
    {a \div self.k, b \div self.k} \subseteq c_tree.nodes[n].members

Cols == 0 .. self.d - 1

\* C7: after _init_params, mask[a, b] = 0 exactly when the column groups of a
\* and b share a maximal clique; the mask is symmetric; two sources joined by
\* an edge give a mask of zeros, no dependencies give zero diagonal blocks only.
C7_Mask ==
  Has("mask") =>
    /\ \A a \in Cols : \A b \in Cols :
         /\ self.mask[a][b] \in {0, 1}
         /\ self.mask[a][b] = 0 <=> ShareMaxClique(a, b)
         /\ self.mask[a][b] = self.mask[b][a]
    /\ (self.m = 2 /\ self.deps = {<<0, 1>>}) =>
         \A a \in Cols : \A b \in Cols : self.mask[a][b] = 0
    /\ self.deps = {} =>
         \A a \in Cols : \A b \in Cols :
           self.mask[a][b] = 0 <=> (a \div self.k = b \div self.k)

\* _init_params has run on a chain 0 - 1 - 2: sources 0 and 1 share a clique,
\* sources 0 and 2 share none
C7_Witness ==
  /\ Has("mask")
  /\ self.deps = {<<0, 1>>, <<1, 2>>}
  /\ self.mask[0][self.k] = 0
  /\ self.mask[0][2 * self.k] = 1

\* C8 as stated: loss_inv_Z takes the entries of pairs of columns that share a
\* maximal clique, and no others.
C8_SameCliqueEntries ==
  \A i \in 1 .. Len(lossLog) :
    lossLog[i].fn = "loss_inv_Z" =>
      lossLog[i].entries = {e \in Cols \X Cols : ShareMaxClique(e[1], e[2])}

\* C8: loss_inv_Z takes the entries of O_inv + Z Z' at the positions where the
\* mask is 1, the pairs of columns that share no maximal clique, and no others.
C8_MaskedEntries ==
  \A i \in 1 .. Len(lossLog) :
    lossLog[i].fn = "loss_inv_Z" =>
      lossLog[i].entries = {e \in Cols \X Cols : ~ShareMaxClique(e[1], e[2])}

\* loss_inv_Z has been evaluated over a non-empty set of entries
C8_Witness ==
  /\ Len(lossLog) > 0
  /\ lossLog[1].fn = "loss_inv_Z"
  /\ lossLog[1].entries # {}
  /\ <<0, 2 * self.k>> \in lossLog[1].entries

\* C9: an operation of one instance (construction, update_config, train with
\* keyword options) changes neither the config of the other instance nor
\* lm_model_defaults, the config a later instance starts from.
C9_NoSharedConfig ==
  ret.op \in {"__init__", "update_config", "train"} =>
    /\ ret.others_after = ret.others_before
    /\ ret.defaults_after = ret.defaults_before

\* C10: recursive_merge_dicts(x, y, misses) leaves x unchanged at every depth
\* and y unchanged, whether it returns or raises.
C10_MergeLeavesArguments ==
  ret.op = "recursive_merge_dicts" =>
    /\ ret.x_after = ret.x_before
    /\ ret.y_after = ret.y_before

\* the key k occurs in the dict value dv, at its top level or in a nested dict
RECURSIVE KeyAnywhere(_, _)
KeyAnywhere(dv, k) ==
  \E i \in 1 .. Len(dv) :
    dv[i].k = k \/ (dv[i].dict /\ KeyAnywhere(dv[i].items, k))

\* the keys at the top level of the dict value dv
TopKeys(dv) == {dv[i].k : i \in 1 .. Len(dv)}

\* the keys of y that x has neither at its top level nor in a nested dict
MissedKeys == {k \in TopKeys(ret.y_before) : ~KeyAnywhere(ret.x_before, k)}

\* how often the miss of key k was reported
TimesReported(k) == Cardinality({i \in 1 .. Len(ret.reports) : ret.reports[i] = k})

\* C11: a key of y that x has nowhere is handled by the misses policy:
\* 'report' reports it exactly once and the result does not have it,
\* 'exception' raises ValueError, 'ignore' reports nothing and the result does
\* not have it, 'insert' sets the key at the top level of the result.
C11_MissesPolicy ==
  ret.op # "import" =>
    \A k \in MissedKeys :
      /\ ret.misses = "report" =>
            ret.exc = "none" /\ TimesReported(k) = 1 /\ ~KeyAnywhere(ret.z, k)
      /\ ret.misses = "exception" => ret.exc = "ValueError"
      /\ ret.misses = "ignore" =>
            ret.exc = "none" /\ TimesReported(k) = 0 /\ ~KeyAnywhere(ret.z, k)
      /\ ret.misses = "insert" => ret.exc = "none" /\ k \in TopKeys(ret.z)

\* C12: a keyword option of train that no config dict knows is reported (or
\* refused), never dropped in silence; train has no parameter by which its
\* caller could ask for a permissive merge.
C12_TrainReportsUnknown ==
  ret.op = "train" =>
    \A k \in MissedKeys : TimesReported(k) >= 1 \/ ret.exc = "ValueError"

\* the label matrix L holds a value outside {0..k}
HasBadLabel(L, k) ==
  \E r \in 1 .. NumRows(L) : \E i \in DOMAIN L[r] : L[r][i] \notin 0 .. k

\* C13: train(L) on a label matrix with a value outside {0..k} fails at once:
\* the call has failed, and O was not computed, the parameters were not
\* initialised and no optimisation step was taken.
C13_BadLabelFailsFast ==
  (argL # <<>> /\ HasBadLabel(argL, self.k)) =>
    /\ status = "failed"
    /\ phases = <<>>
    /\ lossLog = <<>>

C15_ErrorCarriesEpoch ==
  (ret.op = "train" /\ ret.exc = "Exception") =>
    \E a \in 1 .. Len(ret.args) :
      \E j \in 1 .. Len(ret.args[a].values) :
        ret.args[a].values[j] = lossLog[Len(lossLog)].epoch

\* the optimiser steps the current _train call has taken: the losses it
\* evaluated that did not raise
StepsTaken == Cardinality({i \in 1 .. Len(lossLog) : lossLog[i].loss # "nan"})

\* the _train call under way, or the last one, evaluated only the loss fn
OnlyLoss(fn) == \A i \in 1 .. Len(lossLog) : lossLog[i].fn = fn

\* the step counts of a train call: a fitting loop never takes more than
\* n_epochs steps, has taken exactly n_epochs when it ends (the fit of Z when
\* Q is computed, the fit of mu when train returns), and a call that fails
\* inside a loop has just evaluated a NaN loss
C16_Steps ==
  LET n == NEpochs(heap, config["A"])
  IN /\ pc \in {"loop_Z", "loop_mu"} =>
          epoch <= n /\ StepsTaken = epoch /\ Len(lossLog) = epoch
     /\ pc = "get_Q" =>
          epoch = n /\ StepsTaken = n /\ Len(lossLog) = n /\ OnlyLoss("loss_inv_Z")
     /\ status = "ready" =>
          /\ epoch = n /\ StepsTaken = n /\ Len(lossLog) = n
          /\ OnlyLoss(IF self.deps # {} THEN "loss_inv_mu" ELSE "loss_mu")
          /\ self.deps # {} <=> "fit_Z" \in {phases[i] : i \in 1 .. Len(phases)}
     /\ (status = "failed" /\ phases # <<"O">>) =>
          /\ lossLog # <<>>
          /\ lossLog[Len(lossLog)].loss = "nan"
          /\ StepsTaken = Len(lossLog) - 1

\* C16: every train call terminates, and when no loss is NaN each fitting
\* phase takes exactly n_epochs optimiser steps and then stops: n_epochs steps
\* without dependencies, n_epochs on Z and then n_epochs on mu with them;
\* nothing but a NaN loss ends a phase early.
C16_TrainTerminates ==
  /\ []C16_Steps
  /\ (status = "training") ~> (status \in {"ready", "failed"})

\* a train call with a dependency and n_epochs = MaxEpochs has returned
C16_Witness ==
  /\ status = "ready"
  /\ self.deps # {}
  /\ NEpochs(heap, config["A"]) = MaxEpochs
  /\ StepsTaken = MaxEpochs
  /\ phases = DepOrder

\* the nodes and the edges of the clique tree that have more than one member
MultiNodes == {j \in TreeNodes(c_tree) : Cardinality(c_tree.nodes[j].members) > 1}
MultiEdges == {e \in TreeEdges(c_tree) : Cardinality(c_tree.edges[e].members) > 1}

\* the only group of the clique tree with more than one member is one node,
\* a clique of two sources
OnePairClique ==
  /\ Cardinality(MultiNodes) = 1
  /\ \A j \in MultiNodes : Cardinality(c_tree.nodes[j].members) = 2
  /\ MultiEdges = {}

\* C17: with offset 1 the augmented matrix of m sources and k classes has
\* exactly m*k columns when higher_order is False; with higher_order True and
\* a clique tree whose only group of more than one member is one clique of
\* two sources it has exactly k^2 columns more.
C17_ColumnCount ==
  (ret.op = "augment" /\ ret.offset = 1) =>
    /\ ~ret.higher_order => Width(ret.aug) = self.m * self.k
    /\ (ret.higher_order /\ OnePairClique) =>
         Width(ret.aug) = self.m * self.k + self.k * self.k

\* the method was called with higher_order on a model of MaxM sources and MaxK
\* classes with one dependent pair
C17_Witness ==
  /\ ret.op = "augment"
  /\ ret.offset = 1
  /\ ret.higher_order
  /\ OnePairClique
  /\ self.m = MaxM
  /\ self.k = MaxK
  /\ Width(ret.aug) = MaxM * MaxK + MaxK * MaxK

\* C18: for every row r, source i and value v in {offset..k}, the entry of
\* the augmented matrix at row r, column i*(k+1-offset) + (v-offset) is 1 if
\* L[r, i] = v and 0 otherwise.
C18_UnaryIndicators ==
  ret.op = "augment" =>
    \A r \in 1 .. NumRows(ret.L) : \A i \in 0 .. self.m - 1 :
      \A v \in ret.offset .. self.k :
        ret.aug[r][i * (self.k + 1 - ret.offset) + (v - ret.offset)]
          = IF ret.L[r][i] = v THEN 1 ELSE 0

\* a matrix was augmented at offset 1 in which the last source emits the
\* value k in some row and another value in another row
C18_Witness ==
  /\ ret.op = "augment"
  /\ ret.offset = 1
  /\ self.m = MaxM
  /\ \E r \in 1 .. NumRows(ret.L) :
       ret.L[r][self.m - 1] = self.k /\ ret.aug[r][self.m * self.k - 1] = 1
  /\ \E r \in 1 .. NumRows(ret.L) :
       ret.L[r][self.m - 1] # self.k /\ ret.aug[r][self.m * self.k - 1] = 0

\* the groups of more than one member, as <<kind, id>>, and their annotation
MultiItems ==
  {<<"node", j>> : j \in MultiNodes} \cup {<<"edge", e>> : e \in MultiEdges}
GroupOf(item) ==
  IF item[1] = "node" THEN c_tree.nodes[item[2]] ELSE c_tree.edges[item[2]]

\* the number of the joint assignment a (member |-> value - offset) among the
\* assignments of its group, the first member being the most significant
AssignmentIndex(a, members, km) ==
  LET ms == SortedSeq(members)
  IN SumOver([j \in 1 .. Len(ms) |-> a[ms[j]] * Pow(km, Len(ms) - j)], 1 .. Len(ms))

\* in row r every member of the group emitted the value assigned to it by a
Emitted(r, a, members) == \A i \in members : ret.L[r][i] = a[i] + ret.offset

\* C19: with higher_order, every node and every edge of the clique tree with
\* nc > 1 members gets km^nc columns of its own, appended after the unary
\* ones, one per joint assignment of values to its members: the entry in row
\* r is 1 if every member emitted its assigned value in row r and 0 if not;
\* its [start_index, end_index) is exactly the range of these columns, and
\* the ranges of different groups do not overlap.
C19_JointIndicators ==
  (ret.op = "augment" /\ ret.higher_order) =>
    LET km == self.k + 1 - ret.offset
    IN /\ \A it \in MultiItems :
            LET G  == GroupOf(it)
                nc == Cardinality(G.members)
            IN /\ G.end_index - G.start_index = Pow(km, nc)
               /\ self.m * km <= G.start_index
               /\ G.end_index <= Width(ret.aug)
               /\ \A a \in [G.members -> 0 .. km - 1] :
                    \A r \in 1 .. NumRows(ret.L) :
                      ret.aug[r][G.start_index + AssignmentIndex(a, G.members, km)]
                        = IF Emitted(r, a, G.members) THEN 1 ELSE 0
       /\ \A it \in MultiItems : \A jt \in MultiItems \ {it} :
            \/ GroupOf(it).end_index <= GroupOf(jt).start_index
            \/ GroupOf(jt).end_index <= GroupOf(it).start_index
       /\ Width(ret.aug) =
            self.m * km
              + SumOver([it \in MultiItems |->
                           Pow(km, Cardinality(GroupOf(it).members))], MultiItems)

\* the tree has a separator of two members and cliques of three; a column of
\* the separator and a column of a clique hold a 1
C19_Witness ==
  /\ ret.op = "augment"
  /\ ret.higher_order
  /\ ret.offset = 1
  /\ self.k = MaxK
  /\ \E e \in MultiEdges : \E r \in 1 .. NumRows(ret.L) :
       \E c \in c_tree.edges[e].start_index .. c_tree.edges[e].end_index - 1 :
         ret.aug[r][c] = 1
  /\ \E j \in MultiNodes : \E r \in 1 .. NumRows(ret.L) :
       /\ Cardinality(c_tree.nodes[j].members) > 2
       /\ \E c \in c_tree.nodes[j].start_index .. c_tree.nodes[j].end_index - 1 :
            ret.aug[r][c] = 1

\* the nodes and edges of the clique tree that have exactly one member
SingleItems ==
  {<<"node", j>> : j \in {n \in TreeNodes(c_tree) :
                             Cardinality(c_tree.nodes[n].members) = 1}}
    \cup {<<"edge", e>> : e \in {f \in TreeEdges(c_tree) :
                                    Cardinality(c_tree.edges[f].members) = 1}}

\* C20: with higher_order, a node or a separator with exactly one member adds
\* no column: its start_index / end_index, in the tree and in c_data, are the
\* unary column range of its member, and the width of the matrix counts the
\* unary columns and those of the groups of several members only.
C20_SingleMemberReusesUnary ==
  (ret.op = "augment" /\ ret.higher_order) =>
    LET km == self.k + 1 - ret.offset
    IN /\ \A it \in SingleItems :
            LET G == GroupOf(it)
                i == CHOOSE x \in G.members : TRUE
                e == self.c_data[TupleKey(<<i>>)]
            IN /\ G.start_index = i * km /\ G.end_index = (i + 1) * km
               /\ e.start_index = i * km /\ e.end_index = (i + 1) * km
               /\ G.start_index = self.c_data[IntKey(i)].start_index
               /\ G.end_index = self.c_data[IntKey(i)].end_index
       /\ Width(ret.aug) - self.m * km =
            SumOver([it \in MultiItems |->
                       GroupOf(it).end_index - GroupOf(it).start_index], MultiItems)

\* the tree has a separator of one member and an isolated source, annotated
\* with the column ranges of their members
C20_Witness ==
  /\ ret.op = "augment"
  /\ ret.higher_order
  /\ self.k = MaxK
  /\ \E it \in SingleItems :
       it[1] = "edge" /\ GroupOf(it).end_index - GroupOf(it).start_index = self.k + 1 - ret.offset
  /\ Width(ret.aug) = (self.m + 2 * (self.k + 1 - ret.offset)) * (self.k + 1 - ret.offset)

\* the output of source i on subtask s in row r agrees with the vector y
Consistent(r, i, y) ==
  \A s \in 1 .. Len(ret.L) : ret.L[s][r][i] = y[s] \/ ret.L[s][r][i] = 0

\* source i abstained on every subtask in row r
AbstainedOnAll(r, i) == \A s \in 1 .. Len(ret.L) : ret.L[s][r][i] = 0

\* C21: multi-task: for every row r, source i and vector y of the feasible
\* set, the augmented entry of (i, y) is 1 if every subtask's output of the
\* source is y's component or 0 and not all of them are 0, and 0 otherwise;
\* so it is 0 for a source that abstained on every subtask.
C21_MultiTaskIndicators ==
  (ret.op = "augment" /\ Has("task_graph")) =>
    LET km == self.k + 1 - ret.offset
        fs == self.task_graph
    IN \A r \in 1 .. NumRows(ret.L[1]) : \A i \in 0 .. self.m - 1 :
         \A yi \in 1 .. Len(fs) :
           ret.aug[r][i * km + (yi - 1)]
             = IF Consistent(r, i, fs[yi]) /\ ~AbstainedOnAll(r, i) THEN 1 ELSE 0

\* a multi-task matrix was augmented in which a source abstained on every
\* subtask in one row (entry 0), and emitted on one subtask only in another,
\* which agrees with two vectors of the feasible set (both entries 1)
C21_Witness ==
  /\ ret.op = "augment"
  /\ Has("task_graph")
  /\ ret.offset = 1
  /\ \E r \in 1 .. NumRows(ret.L[1]) :
       AbstainedOnAll(r, 0) /\ ret.aug[r][0] = 0
  /\ \E r \in 1 .. NumRows(ret.L[1]) :
       /\ ~AbstainedOnAll(r, 0)
       /\ \E s \in 1 .. Len(ret.L) : ret.L[s][r][0] = 0
       /\ Cardinality({c \in 0 .. self.k - 1 : ret.aug[r][c] = 1}) = 2

\* the steps the train call under way, or the last one, has taken
PhaseSet == {phases[i] : i \in 1 .. Len(phases)}

\* C22: every train call creates O (O_inv and Q with dependencies), the mask,
\* c_data, mu and Z afresh: whatever of these the model holds once a train
\* call has started was computed by that call, from its label matrix and its
\* random draws, and not by an earlier call.
C22_FreshPerTrainCall ==
  (trainCalls > 0 /\ pc = "idle") =>
    /\ Has("O") /\ Has("c_data") /\ "O" \in PhaseSet
    /\ self.O = generate_O(UnaryAug(argL, self.k, 1))
    /\ self.c_data = UnaryCData(argL, self.k, 1, c_tree)
    /\ Has("O_inv") => ("O_inv" \in PhaseSet /\ self.O_inv.inverse_of = self.O)
    /\ (Has("mu") \/ Has("mask") \/ Has("Z")) => "init_params" \in PhaseSet
    /\ Has("mask") => self.mask = mask_of(self.c_data, self.d)
    /\ Has("Q") => ("Q" \in PhaseSet /\ self.Q.O = self.O)

\* the attribute a of the instance is the same before and after the step
SameAttr(a) ==
  IF a \in DOMAIN self THEN a \in DOMAIN self' /\ self'[a] = self[a]
  ELSE a \notin DOMAIN self'

\* C23: inference is read-only on a model that train has fitted: a call of
\* get_label_probs leaves mu, Z, O and the mask as they are, leaves the column
\* annotations of the clique tree as they are, and leaves in c_data the value
\* train had put there.
C23_InferenceReadOnly ==
  [][(pc = "idle" /\ trainCalls > 0 /\ ret'.op = "get_label_probs") =>
       /\ \A a \in {"mu", "Z", "O", "mask"} : SameAttr(a)
       /\ c_tree' = c_tree
       /\ self'.c_data = UnaryCData(argL, self.k, 1, c_tree)]_vars

\* a fitted model with a dependency, its clique tree annotated, has answered
\* get_label_probs with a posterior, and c_data holds what train left
C23_Witness ==
  /\ ret.op = "get_label_probs"
  /\ ret.exc = "none"
  /\ status = "ready"
  /\ self.deps # {}
  /\ Annotated(c_tree)
  /\ self.c_data = UnaryCData(argL, self.k, 1, c_tree)

\* C24: an epoch of _train is atomic for the parameters: it evaluates one
\* loss, from the parameter values the epoch started with; when that loss is
\* NaN the call fails with no parameter changed, after exactly as many updates
\* as the epoch's index; otherwise exactly one update is applied, to the
\* parameter the loss is a function of, and nothing else of the model changes.
C24_EpochAtomic ==
  [][(pc \in {"loop_Z", "loop_mu"} /\ lossLog' # lossLog) =>
       LET e == lossLog'[Len(lossLog')]
           w == ParamOf(e.fn)
       IN /\ lossLog' = Append(lossLog, e)
          /\ e.epoch = epoch
          /\ e.fn = LossFn(pc, self.inv_form)
          /\ e.loss \in LossKinds(LossReadsNan(e.fn, self))
          /\ IF e.loss = "nan"
             THEN /\ self' = self
                  /\ status' = "failed"
                  /\ epoch' = epoch
                  /\ StepsTaken' = epoch
             ELSE /\ epoch' = epoch + 1
                  /\ StepsTaken' = epoch + 1
                  /\ status' = status
                  /\ DOMAIN self' = DOMAIN self
                  /\ \A a \in DOMAIN self \ {w} : self'[a] = self[a]
                  /\ self'[w] \in StepValues(self.d, self.k) \cup {NanTensor}]_vars

\* a fit of mu has failed on a NaN loss in its last epoch, after the updates
\* of the epochs before it
C24_Witness ==
  /\ status = "failed"
  /\ lossLog # <<>>
  /\ Len(lossLog) = MaxEpochs
  /\ lossLog[Len(lossLog)].loss = "nan"
  /\ lossLog[Len(lossLog)].fn \in {"loss_mu", "loss_inv_mu"}
  /\ epoch = MaxEpochs - 1
  /\ self.mu \in StepValues(self.d, self.k)

\* train has not yet taken a step on mu since _init_params
MuUntouched == pc \in {"loop_Z", "get_Q"} \/ (pc = "loop_mu" /\ epoch = 0)

\* the entries of mu_init off the diagonals of the source blocks
Remaining == {c \in (0 .. self.d - 1) \X Classes(self.k) : c[1] % self.k # c[2]}

\* the diagonal of every source block holds a value >= 0 that is >= every other
\* entry of its column within the block, and mu starts as a copy of mu_init
DiagonalBias ==
  /\ \A i \in 0 .. self.m - 1 : \A y \in Classes(self.k) :
       /\ self.mu_init[i * self.k + y][y] >= 0
       /\ \A a \in i * self.k .. (i + 1) * self.k - 1 :
            self.mu_init[i * self.k + y][y] >= self.mu_init[a][y]
  /\ MuUntouched => self.mu = Tensor(self.mu_init)

\* C25 (as stated): after _init_params the diagonal of every source block of
\* mu is biased, and the remaining entries of mu are randomly initialised:
\* each is the draw of the generator at its position, from some generator state.
C25_RemainingRandom ==
  Has("mu_init") =>
    /\ DiagonalBias
    /\ \E s \in 0 .. Len(RandStream) - 1 :
         \A c \in Remaining : self.mu_init[c[1]][c[2]] = RandAt(s, c[1] * self.k + c[2])

\* C25 (amended): after _init_params the diagonal of every source block of mu
\* holds a random value >= 0 that is >= every other entry of its column within
\* the block, and every remaining entry of mu is exactly zero.
C25_DiagonalSeed ==
  Has("mu_init") =>
    /\ DiagonalBias
    /\ \A c \in Remaining : self.mu_init[c[1]][c[2]] = 0

\* parameters just initialised for several sources, a diagonal entry positive
C25_Witness ==
  /\ Has("mu_init")
  /\ MuUntouched
  /\ epoch = 0
  /\ self.m >= 2
  /\ Remaining # {}
  /\ \E a \in 0 .. self.d - 1 : self.mu_init[a][a % self.k] > 0
  /\ self.mu = Tensor(self.mu_init)

\* the entries for the positions at which the predicted label is i and the
\* gold label is j, in the order of the positions
Expected(i, j) ==
  LET n  == Len(argL.gold)
      at == SortedSeq({q \in 1 .. n : argL.pred[q] = i /\ argL.gold[q] = j})
  IN [q \in 1 .. Len(at) |-> BucketEntry(argL.X, at[q])]

\* C26: error_buckets(gold, pred, X) returns buckets in which buckets[i, j]
\* lists exactly the items (the indices when X is None) whose predicted label
\* is i and whose gold label is j; in a binary problem buckets[1, 2] holds the
\* false positives and buckets[2, 1] the false negatives.
C26_BucketsByPredThenGold ==
  ret.op = "error_buckets" =>
    /\ \A i \in BinaryLabels : \A j \in BinaryLabels :
         BucketAt(ret.buckets, <<i, j>>) = Expected(i, j)
    /\ \A c \in DOMAIN ret.buckets : c \in BinaryLabels \X BinaryLabels

RECURSIVE Occurrences(_, _)
\* the scalar values under key k in the dict value dv, in the order in which
\* the merge looks: the dict's own key first, then its dict values in order
Occurrences(dv, k) ==
  IF dv = <<>> THEN <<>>
  ELSE LET here == {i \in 1 .. Len(dv) : dv[i].k = k /\ ~dv[i].dict}
           RECURSIVE Below(_)
           Below(i) ==
             IF i > Len(dv) THEN <<>>
             ELSE (IF dv[i].dict THEN Occurrences(dv[i].items, k) ELSE <<>>)
                    \o Below(i + 1)
       IN (IF here = {} THEN <<>> ELSE <<dv[CHOOSE i \in here : TRUE].val>>)
            \o Below(1)

\* the positions in y of the scalar items whose key x has in a nested dict
\* and not at its top level
NestedHits ==
  {i \in 1 .. Len(ret.y_before) :
     /\ ~ret.y_before[i].dict
     /\ ret.y_before[i].k \notin TopKeys(ret.x_before)
     /\ Occurrences(ret.x_before, ret.y_before[i].k) # <<>>}

\* C27: a key of y that x does not have at its top level but has inside a
\* nested dict, at any depth, is written into the result's nested dict, in
\* exactly one of them, the first found that has the key; it is not added at
\* the top level and is not a miss under any misses mode; so the flat option
\* n_epochs of train sets config['train_config']['n_epochs'].
C27_NestedKeyOverwrites ==
  ret.op \in {"__init__", "update_config", "train", "recursive_merge_dicts"} =>
    \A i \in NestedHits :
      LET k == ret.y_before[i].k
          v == ret.y_before[i].val
      IN /\ TimesReported(k) = 0
         /\ (\A j \in 1 .. Len(ret.y_before) : j \in NestedHits) => ret.exc = "none"
         /\ ret.exc = "none" =>
              /\ k \notin TopKeys(ret.z)
              /\ Occurrences(ret.z, k) = [Occurrences(ret.x_before, k) EXCEPT ![1] = v]
              /\ (ret.op = "train" /\ k = "n_epochs") =>
                    NEpochs(heap, config[ret.inst]) = v

\* n_epochs has been merged into a dict that has it in two nested dicts, under
\* the mode that raises on a miss: only the first of the two has changed
C27_Witness ==
  /\ ret.op = "recursive_merge_dicts"
  /\ ret.misses = "exception"
  /\ ret.exc = "none"
  /\ NestedHits # {}
  /\ Occurrences(ret.x_before, "n_epochs") = <<1, 1>>
  /\ Occurrences(ret.z, "n_epochs") = <<MaxEpochs, 1>>

\* how often train has computed Q
TimesQ == Cardinality({i \in 1 .. Len(phases) : phases[i] = "Q"})

\* the phases of the dependency regime, as far as the state shows them: mu is
\* still mu_init until the fit of mu takes its first step, the call has not
\* computed Q before the fit of Z is over, and once it has, Q is the one Q
\* computed from O and from the Z that the fit of Z left
DepPhases ==
  self.inv_form =>
    /\ pc \in {"loop_Z", "get_Q"} =>
         /\ self.mu = Tensor(self.mu_init)
         /\ TimesQ = 0
    /\ pc = "get_Q" => StepsTaken = NEpochs(heap, config["A"])
    /\ (pc = "loop_mu" /\ epoch = 0) => self.mu = Tensor(self.mu_init)
    /\ pc = "loop_mu" \/ status = "ready" => TimesQ = 1
    /\ TimesQ > 0 =>
         /\ TimesQ = 1
         /\ self.Q = [O |-> self.O, Z |-> self.Z]

\* C28: in the dependency regime the fit of Z does not modify mu (mu is mu_init
\* when the fit of mu begins), Q is computed exactly once, from O and the Z
\* left by the last step of the fit of Z, before the first step of the fit of
\* mu, and the fit of mu modifies neither Q nor O.
C28_PhasesKeepApart ==
  /\ []DepPhases
  /\ [][(self.inv_form /\ pc = "loop_Z") => SameAttr("mu") /\ SameAttr("O")]_vars
  /\ [][(self.inv_form /\ pc = "loop_mu") => SameAttr("Q") /\ SameAttr("O")]_vars

\* a train call with a dependency has returned: Z and mu have both been
\* moved, and Q is the one computed between the two fits
C28_Witness ==
  /\ status = "ready"
  /\ self.inv_form
  /\ phases = DepOrder
  /\ self.Z \in StepValues(self.d, self.k)
  /\ self.mu \in StepValues(self.d, self.k)
  /\ self.mu # Tensor(self.mu_init)
  /\ self.Q = [O |-> self.O, Z |-> self.Z]

====
